---- MODULE Spec2Model ----
(***************************************************************************)
(* parpi: nine decimal digits of pi at a chosen offset (Bellard's 1997     *)
(* program, src/src/main.rs).  The kernel calc_digits is modelled as a     *)
(* state machine whose steps are the iterations of its loops and of the    *)
(* loops of pow_mod, inv_mod, inv_mod2 and next_prime; the driver main is  *)
(* modelled with its parallel tasks.                                       *)
(*                                                                         *)
(* Numbers: every i32 of the program stays far below 2^31 for the offsets  *)
(* explored, so the integer operators are the mathematical ones (TLC       *)
(* itself stops with an error on a 32-bit overflow).  Rust's / and %       *)
(* truncate toward zero (Quot, Rem); >> 1 on an i32 is the floor of the    *)
(* half (\div 2) and & 1 is the parity (% 2).                              *)
(***************************************************************************)
EXTENDS Integers, Sequences

\* Bounds of the exploration.
MaxN == 10
MaxMod == 25
MaxArg == 120
MaxDigits == 36
FracDigits == 18

VARIABLES
    pc,        \* position of the running code
    n,         \* calc_digits: the offset
    nl,        \* number of terms
    a,         \* prime base
    vmax,      \* exponent of the channel modulus
    av,        \* channel modulus a^vmax
    num, den,  \* running numerator, denominator mod av
    v,         \* exponent tally
    kq1, kq2, kq3, kq4,   \* divisibility counters
    s,         \* channel partial sum
    k,         \* term index
    t,         \* the scratch t of calc_digits
    sum,       \* the f64 accumulator, as FracDigits decimal digits after the point
    result,    \* value returned by calc_digits
    fr,        \* locals of the callee whose loop is running
    x, y,      \* arguments handed to inv_mod and inv_mod2 by the inverse check
    r1, r2,    \* their results
    arg,       \* argument handed to is_prime
    prime,     \* its result
    num_digits,\* main: the parsed argument
    blocks,    \* main: num_digits / 9 as computed
    task,      \* main: state of the parallel task of each block index
    pi,        \* main: the collected Vec<String>, by position
    order,     \* main: the block indices in the order their tasks completed
    out        \* main: the printed line

calcVars == <<n, nl, a, vmax, av, num, den, v, kq1, kq2, kq3, kq4, s, k, t, sum, result>>
invVars == <<x, y, r1, r2>>
primeVars == <<arg, prime>>
mainVars == <<num_digits, blocks, task, pi, order, out>>
vars == <<pc, fr, calcVars, invVars, primeVars, mainVars>>

----------------------------------------------------------------------------
\* Rust integer semantics

Abs(i) == IF i < 0 THEN -i ELSE i

\* i / j on i32: truncation toward zero
Quot(i, j) == IF (i < 0) = (j < 0) THEN Abs(i) \div Abs(j) ELSE -(Abs(i) \div Abs(j))

\* i % j on i32: the sign of the dividend
Rem(i, j) == i - j * Quot(i, j)

\* (p * q) mod m for 0 <= p, q < m < 2^24, the value the i64 product gives,
\* computed six bits of q at a time so that no intermediate exceeds 2^31.
RECURSIVE MulRem(_, _, _)
MulRem(p, q, m) ==
    IF q < 64 THEN (p * q) % m
    ELSE (((MulRem(p, q \div 64, m) * 64) % m) + ((p * (q % 64)) % m)) % m

\* mul_mod(a, b, n) = (((a as i64) * (b as i64)) % (n as i64)) as i32
mul_mod(p, q, m) ==
    LET r == MulRem(Abs(p) % Abs(m), Abs(q) % Abs(m), Abs(m))
    IN  IF (p < 0) = (q < 0) THEN r ELSE -r

RECURSIVE Power(_, _)
Power(b, e) == IF e <= 0 THEN 1 ELSE b * Power(b, e - 1)

----------------------------------------------------------------------------
\* pow_mod(a, b, m)

pow_mod_init(b0, e0, m0) == [r |-> 1, aa |-> b0, b |-> e0, m |-> m0, done |-> FALSE]

\* pow_mod's iteration without b = b >> 1
pow_mod_noshift(f) ==
    LET rr == IF f.b % 2 # 0 THEN mul_mod(f.r, f.aa, f.m) ELSE f.r
    IN  IF f.b = 0 THEN [f EXCEPT !.r = rr, !.done = TRUE]
        ELSE [f EXCEPT !.r = rr, !.aa = mul_mod(f.aa, f.aa, f.m)]

\* one iteration of the loop of pow_mod
pow_mod_loop(f) ==
    LET rr == IF f.b % 2 # 0 THEN mul_mod(f.r, f.aa, f.m) ELSE f.r
        bb == f.b \div 2
    IN  IF bb = 0 THEN [f EXCEPT !.r = rr, !.b = bb, !.done = TRUE]
        ELSE [f EXCEPT !.r = rr, !.b = bb, !.aa = mul_mod(f.aa, f.aa, f.m)]

----------------------------------------------------------------------------
\* inv_mod(x, y)

inv_mod_init(x0, y0) ==
    [u |-> x0, v |-> y0, c |-> 1, a |-> 0, y |-> y0, done |-> FALSE, panic |-> FALSE]

\* one iteration of the loop of inv_mod; v / u panics when u = 0
inv_mod_loop(f) ==
    IF f.u = 0 THEN [f EXCEPT !.panic = TRUE]
    ELSE LET q == Quot(f.v, f.u)
             u2 == f.v - q * f.u
         IN  [f EXCEPT !.c = f.a - q * f.c, !.a = f.c, !.u = u2, !.v = f.u,
                       !.done = (u2 = 0)]

\* a % y without the if a < 0 that follows
inv_mod_raw(f) == Rem(f.a, f.y)

\* the normalisation after the loop, and the value returned
inv_mod_result(f) ==
    LET r == Rem(f.a, f.y)
    IN  IF r < 0 THEN f.y + r ELSE r

----------------------------------------------------------------------------
\* inv_mod2(u, v)

inv_mod2_init(u0, v0) ==
    IF u0 % 2 # 0
    THEN [u1 |-> 1, u3 |-> u0, v1 |-> v0, v3 |-> v0, t1 |-> 0, t3 |-> -v0,
          skip |-> TRUE, v |-> v0, done |-> FALSE]
    ELSE [u1 |-> 1, u3 |-> u0, v1 |-> v0, v3 |-> v0, t1 |-> 1, t3 |-> u0,
          skip |-> FALSE, v |-> v0, done |-> FALSE]

\* one iteration of the inner loop of inv_mod2 and, when it leaves the inner
\* loop (t3 odd), the rest of the outer iteration
inv_mod2_loop(f) ==
    LET t1a == IF f.skip THEN f.t1
               ELSE IF f.t1 % 2 = 0 THEN f.t1 \div 2 ELSE (f.t1 + f.v) \div 2
        t3a == IF f.skip THEN f.t3 ELSE f.t3 \div 2
    IN  IF t3a % 2 = 0
        THEN [f EXCEPT !.t1 = t1a, !.t3 = t3a, !.skip = FALSE]
        ELSE LET u1b == IF t3a >= 0 THEN t1a ELSE f.u1
                 u3b == IF t3a >= 0 THEN t3a ELSE f.u3
                 v1b == IF t3a >= 0 THEN f.v1 ELSE f.v - t1a
                 v3b == IF t3a >= 0 THEN f.v3 ELSE -t3a
                 t1b == u1b - v1b
                 t3b == u3b - v3b
             IN  [f EXCEPT !.u1 = u1b, !.u3 = u3b, !.v1 = v1b, !.v3 = v3b,
                           !.t1 = IF t1b < 0 THEN t1b + f.v ELSE t1b,
                           !.t3 = t3b, !.skip = FALSE, !.done = (t3b = 0)]

----------------------------------------------------------------------------
\* is_prime(n), next_prime(n)

RECURSIVE is_prime_from(_, _)
is_prime_from(m, i) ==
    IF i * i > m THEN TRUE
    ELSE IF Rem(m, i) = 0 THEN FALSE
    ELSE is_prime_from(m, i + 2)

is_prime(m) == IF Rem(m, 2) = 0 THEN FALSE ELSE is_prime_from(m, 3)

----------------------------------------------------------------------------
\* divn!(t, a, v, vinc, kq, kqinc)

RECURSIVE kq_reduce(_, _)
\* loop { kq -= a; if kq < a { break } }
kq_reduce(kq, p) == IF kq - p < p THEN kq - p ELSE kq_reduce(kq - p, p)

\* a single t = t / a; v += vinc
strip_once(tv, p, vinc) == [t |-> Quot(tv.t, p), v |-> tv.v + vinc]

RECURSIVE strip(_, _, _)
\* loop { t = t / a; v += vinc; if (t % a) != 0 { break } }
strip(tv, p, vinc) ==
    LET nx == [t |-> Quot(tv.t, p), v |-> tv.v + vinc]
    IN  IF Rem(nx.t, p) # 0 THEN nx ELSE strip(nx, p, vinc)

\* divn! with if kq > a
divn_gt(t0, p, v0, vinc, kq0, kqinc) ==
    LET kqa == kq0 + kqinc
    IN  IF kqa > p
        THEN LET kqb == kq_reduce(kqa, p)
             IN  IF kqb = 0
                 THEN LET st == strip([t |-> t0, v |-> v0], p, vinc)
                      IN  [t |-> st.t, v |-> st.v, kq |-> kqb]
                 ELSE [t |-> t0, v |-> v0, kq |-> kqb]
        ELSE [t |-> t0, v |-> v0, kq |-> kqa]

\* kq += kqinc; if kq >= a: kq is reduced below a and, when it reaches 0, t
\* loses its powers of a, each adding vinc to v
divn(t0, p, v0, vinc, kq0, kqinc) ==
    LET kqa == kq0 + kqinc
    IN  IF kqa >= p
        THEN LET kqb == kq_reduce(kqa, p)
             IN  IF kqb = 0
                 THEN LET st == strip([t |-> t0, v |-> v0], p, vinc)
                      IN  [t |-> st.t, v |-> st.v, kq |-> kqb]
                 ELSE [t |-> t0, v |-> v0, kq |-> kqb]
        ELSE [t |-> t0, v |-> v0, kq |-> kqa]

----------------------------------------------------------------------------
\* The floating-point expressions of calc_digits

\* ((n + 20) as f64 * ln(10) / ln(13.5)) as i32; ln(10)/ln(13.5) = 0.884694439...
\* and (n + 20) * 0.884694 has the same integer part for every n + 20 < 1000.
NlOf(m) == ((m + 20) * 884694) \div 1000000

RECURSIVE ILog(_, _)
ILog(b, m) == IF m < b THEN 0 ELSE 1 + ILog(b, m \div b)

\* vmax without the adjustment for a = 2
VMaxPlain(b, terms, off) == ILog(b, 3 * terms)

\* (l3n / ln(a)) as i32, the integer logarithm of 3*nl in base a (the double
\* quotient truncates to it for every offset below 72), and for a = 2 the
\* adjustment vmax + (nl - n)
VMax(b, terms, off) ==
    IF b = 2 THEN ILog(b, 3 * terms) + (terms - off) ELSE ILog(b, 3 * terms)

RECURSIVE FracOf(_, _, _)
\* s as f64 / av as f64, for 0 <= s < av: the first cnt decimal digits
FracOf(r, m, cnt) ==
    IF cnt = 0 THEN <<>>
    ELSE <<(r * 10) \div m>> \o FracOf((r * 10) % m, m, cnt - 1)

RECURSIVE Carry(_, _, _)
Carry(f, g, i) ==
    IF i >= FracDigits THEN 0 ELSE (f[i + 1] + g[i + 1] + Carry(f, g, i + 1)) \div 10

\* (sum + q).fract()
AddFract(f, g) == [i \in 1..FracDigits |-> (f[i] + g[i] + Carry(f, g, i)) % 10]

RECURSIVE Leading(_, _)
Leading(f, cnt) == IF cnt = 0 THEN 0 ELSE 10 * Leading(f, cnt - 1) + f[cnt]

\* sum * 1e9 rounded to nearest
TruncRound(f) == Leading(f, 9) + (IF f[10] >= 5 THEN 1 ELSE 0)

\* (sum * 1e9) as u64
Trunc9(f) == Leading(f, 9)

\* The doubles of the program round each quotient and each sum to 53 bits
\* (an error below 10^-15 each, below 10^-13 for the channels of one call);
\* the digits kept here truncate instead.  When digits 10 to 12 are neither
\* 000 nor 999 the nine leading digits of the double are those of sum.
Clear(f) ==
    /\ ~(f[10] = 0 /\ f[11] = 0 /\ f[12] = 0)
    /\ ~(f[10] = 9 /\ f[11] = 9 /\ f[12] = 9)

ZeroFrac == [i \in 1..FracDigits |-> 0]

----------------------------------------------------------------------------
\* Values of the variables a specification does not use

CalcIdle ==
    /\ n = 0 /\ nl = 0 /\ a = 0 /\ vmax = 0 /\ av = 0 /\ num = 0 /\ den = 0 /\ v = 0
    /\ kq1 = 0 /\ kq2 = 0 /\ kq3 = 0 /\ kq4 = 0 /\ s = 0 /\ k = 0 /\ t = 0
    /\ sum = ZeroFrac /\ result = 0

InvIdle == x = 0 /\ y = 0 /\ r1 = 0 /\ r2 = 0

PrimeIdle == arg = 0 /\ prime = FALSE

MainIdle ==
    /\ num_digits = 0 /\ blocks = 0 /\ task = <<>> /\ pi = <<>> /\ order = <<>>
    /\ out = <<>>

NoFrame == [done |-> TRUE]

----------------------------------------------------------------------------
\* calc_digits(n)

\* entry of calc_digits: nl, sum = 0.0, a = 2, at the head of the while loop
CalcEntry(off) ==
    /\ pc = "loop" /\ fr = NoFrame
    /\ n = off /\ nl = NlOf(off) /\ a = 2 /\ sum = ZeroFrac
    /\ vmax = 0 /\ av = 0 /\ num = 0 /\ den = 0 /\ v = 0
    /\ kq1 = 0 /\ kq2 = 0 /\ kq3 = 0 /\ kq4 = 0 /\ s = 0 /\ k = 0 /\ t = 0
    /\ result = 0

\* while a <= 3 * nl: the channel set-up, up to the seed of num and v
LoopHead ==
    /\ pc = "loop" /\ a <= 3 * nl
    /\ LET vm == VMax(a, nl, n)
       IN  IF a = 2 /\ vm <= 0
           THEN /\ pc' = "next_prime"
                /\ fr' = [n |-> a]
                /\ UNCHANGED <<vmax, av, s, den, kq1, kq2, kq3, kq4, num, v, k>>
           ELSE /\ vmax' = vm
                /\ av' = Power(a, vm)
                /\ s' = 0 /\ den' = 1
                /\ kq1' = 0 /\ kq2' = -1 /\ kq3' = -3 /\ kq4' = -2
                /\ IF a = 2
                   THEN /\ num' = 1 /\ v' = -n /\ k' = 1
                        /\ pc' = "term" /\ fr' = NoFrame
                   ELSE /\ fr' = pow_mod_init(2, n, Power(a, vm))
                        /\ pc' = "pow_seed"
                        /\ UNCHANGED <<num, v, k>>
    /\ UNCHANGED <<n, nl, a, t, sum, result, invVars, primeVars, mainVars>>

\* num = pow_mod(2, n, av); v = 0
PowSeed ==
    /\ pc = "pow_seed"
    /\ LET f == pow_mod_loop(fr)
       IN  IF f.done
           THEN /\ num' = f.r /\ v' = 0 /\ k' = 1
                /\ pc' = "term" /\ fr' = NoFrame
           ELSE /\ fr' = f
                /\ UNCHANGED <<pc, num, v, k>>
    /\ UNCHANGED <<n, nl, a, vmax, av, den, kq1, kq2, kq3, kq4, s, t, sum, result,
                   invVars, primeVars, mainVars>>

\* for k in 1..nl + 1: t = 2 * k; divn!(t, a, v, -1, kq1, 2); num = mul_mod(num, t, av)
Factor1 ==
    /\ pc = "term" /\ k <= nl
    /\ LET d == divn(2 * k, a, v, -1, kq1, 2)
       IN  /\ t' = d.t /\ v' = d.v /\ kq1' = d.kq
           /\ num' = mul_mod(num, d.t, av)
    /\ pc' = "f2"
    /\ UNCHANGED <<fr, n, nl, a, vmax, av, den, kq2, kq3, kq4, s, k, sum, result,
                   invVars, primeVars, mainVars>>

\* t = 2 * k - 1; divn!(t, a, v, -1, kq2, 2); num = mul_mod(num, t, av)
Factor2 ==
    /\ pc = "f2"
    /\ LET d == divn(2 * k - 1, a, v, -1, kq2, 2)
       IN  /\ t' = d.t /\ v' = d.v /\ kq2' = d.kq
           /\ num' = mul_mod(num, d.t, av)
    /\ pc' = "f3"
    /\ UNCHANGED <<fr, n, nl, a, vmax, av, den, kq1, kq3, kq4, s, k, sum, result,
                   invVars, primeVars, mainVars>>

\* t = 3 * (3 * k - 1); divn!(t, a, v, 1, kq3, 9); den = mul_mod(den, t, av)
Factor3 ==
    /\ pc = "f3"
    /\ LET d == divn(3 * (3 * k - 1), a, v, 1, kq3, 9)
       IN  /\ t' = d.t /\ v' = d.v /\ kq3' = d.kq
           /\ den' = mul_mod(den, d.t, av)
    /\ pc' = "f4"
    /\ UNCHANGED <<fr, n, nl, a, vmax, av, num, kq1, kq2, kq4, s, k, sum, result,
                   invVars, primeVars, mainVars>>

\* t = 3 * k - 2; divn!(t, a, v, 1, kq4, 3); t * 2 or v += 1; den = mul_mod(den, t, av);
\* then if v > 0 the call of inv_mod2 or inv_mod, else the next k
Factor4 ==
    /\ pc = "f4"
    /\ LET d == divn(3 * k - 2, a, v, 1, kq4, 3)
           t2 == IF a # 2 THEN d.t * 2 ELSE d.t
           v2 == IF a # 2 THEN d.v ELSE d.v + 1
           den2 == mul_mod(den, t2, av)
       IN  /\ t' = t2 /\ v' = v2 /\ kq4' = d.kq /\ den' = den2
           /\ IF v2 > 0
              THEN /\ pc' = IF a # 2 THEN "inv_mod2" ELSE "inv_mod"
                   /\ fr' = IF a # 2 THEN inv_mod2_init(den2, av) ELSE inv_mod_init(den2, av)
                   /\ k' = k
              ELSE /\ pc' = "term" /\ fr' = NoFrame /\ k' = k + 1
    /\ UNCHANGED <<n, nl, a, vmax, av, num, kq1, kq2, kq3, s, sum, result,
                   invVars, primeVars, mainVars>>

\* t = inv_mod2(den, av)
InvMod2 ==
    /\ pc = "inv_mod2"
    /\ LET f == inv_mod2_loop(fr)
       IN  IF f.done
           THEN /\ t' = f.u1 /\ pc' = "contrib" /\ fr' = NoFrame
           ELSE /\ fr' = f /\ UNCHANGED <<pc, t>>
    /\ UNCHANGED <<n, nl, a, vmax, av, num, den, v, kq1, kq2, kq3, kq4, s, k, sum,
                   result, invVars, primeVars, mainVars>>

\* t = inv_mod(den, av)
InvMod ==
    /\ pc = "inv_mod"
    /\ LET f == inv_mod_loop(fr)
       IN  IF f.panic
           THEN /\ pc' = "panic" /\ fr' = f /\ UNCHANGED t
           ELSE IF f.done
           THEN /\ t' = inv_mod_result(f) /\ pc' = "contrib" /\ fr' = NoFrame
           ELSE /\ fr' = f /\ UNCHANGED <<pc, t>>
    /\ UNCHANGED <<n, nl, a, vmax, av, num, den, v, kq1, kq2, kq3, kq4, s, k, sum,
                   result, invVars, primeVars, mainVars>>

\* the v > 0 branch after the inverse: t = mul_mod(t, num, av), then the
\* scaling loop for _ in v..vmax starts
Contribute ==
    /\ pc = "contrib"
    /\ t' = mul_mod(t, num, av)
    /\ fr' = [i |-> v]
    /\ pc' = "scale"
    /\ UNCHANGED <<n, nl, a, vmax, av, num, den, v, kq1, kq2, kq3, kq4, s, k, sum, result,
                   invVars, primeVars, mainVars>>

\* s += t alone
add_nowrap(acc, tt, m) == acc + tt

\* s += t; if s >= av { s -= av }
add_wrap(acc, tt, m) == IF acc + tt >= m THEN acc + tt - m ELSE acc + tt

\* one iteration of for _ in v..vmax { t = mul_mod(t, a, av) }; after the last,
\* t = mul_mod(t, 25 * k - 3, av), the addition into s, and the next k
Scale ==
    /\ pc = "scale"
    /\ IF fr.i < vmax
       THEN /\ t' = mul_mod(t, a, av)
            /\ fr' = [i |-> fr.i + 1]
            /\ UNCHANGED <<pc, s, k>>
       ELSE LET tc == mul_mod(t, 25 * k - 3, av)
            IN  /\ t' = tc
                /\ s' = add_wrap(s, tc, av)
                /\ k' = k + 1 /\ pc' = "term" /\ fr' = NoFrame
    /\ UNCHANGED <<n, nl, a, vmax, av, num, den, v, kq1, kq2, kq3, kq4, sum, result,
                   invVars, primeVars, mainVars>>

\* after the terms: the call t = pow_mod(5, n - 1, av)
ChannelEnd ==
    /\ pc = "term" /\ k > nl
    /\ fr' = pow_mod_init(5, n - 1, av)
    /\ pc' = "pow_scale"
    /\ UNCHANGED <<calcVars, invVars, primeVars, mainVars>>

\* t = pow_mod(5, n - 1, av); s = mul_mod(s, t, av); sum = (sum + s / av).fract();
\* then the call a = next_prime(a)
PowScale ==
    /\ pc = "pow_scale"
    /\ LET f == pow_mod_loop(fr)
       IN  IF f.done
           THEN LET s2 == mul_mod(s, f.r, av)
                IN  /\ t' = f.r /\ s' = s2
                    /\ sum' = AddFract(sum, FracOf(s2, av, FracDigits))
                    /\ pc' = "next_prime" /\ fr' = [n |-> a]
           ELSE /\ fr' = f /\ UNCHANGED <<pc, t, s, sum>>
    /\ UNCHANGED <<n, nl, a, vmax, av, num, den, v, kq1, kq2, kq3, kq4, k, result,
                   invVars, primeVars, mainVars>>

\* n += 1 in next_prime
next_prime_inc(f) == [n |-> f.n + 1]

\* a = next_prime(a): one iteration of its loop
NextPrime ==
    /\ pc = "next_prime"
    /\ LET f == next_prime_inc(fr)
       IN  IF is_prime(f.n)
           THEN /\ a' = f.n /\ pc' = "loop" /\ fr' = NoFrame
           ELSE /\ fr' = f /\ UNCHANGED <<pc, a>>
    /\ UNCHANGED <<n, nl, vmax, av, num, den, v, kq1, kq2, kq3, kq4, s, k, t, sum,
                   result, invVars, primeVars, mainVars>>

\* the loop is left: (sum * 1e9) as u64
Return ==
    /\ pc = "loop" /\ a > 3 * nl
    /\ result' = Trunc9(sum)
    /\ pc' = "done"
    /\ UNCHANGED <<fr, n, nl, a, vmax, av, num, den, v, kq1, kq2, kq3, kq4, s, k, t, sum,
                   invVars, primeVars, mainVars>>

Init ==
    /\ \E off \in 1..MaxN : CalcEntry(off)
    /\ InvIdle /\ PrimeIdle /\ MainIdle

Next ==
    \/ LoopHead \/ PowSeed \/ Factor1 \/ Factor2 \/ Factor3 \/ Factor4
    \/ InvMod2 \/ InvMod \/ Contribute \/ Scale \/ ChannelEnd \/ PowScale \/ NextPrime
    \/ Return

Spec == Init /\ [][Next]_vars

\* the same code for every non-negative offset, each step taken eventually
InitNonNeg ==
    /\ \E off \in 0..MaxN : CalcEntry(off)
    /\ InvIdle /\ PrimeIdle /\ MainIdle

SpecNonNeg == InitNonNeg /\ [][Next]_vars /\ WF_vars(Next)

----------------------------------------------------------------------------
\* inv_mod and inv_mod2 on the same arguments

RECURSIVE GCD(_, _)
GCD(i, j) == IF j = 0 THEN i ELSE GCD(j, i % j)

InitInv ==
    /\ \E x0 \in 1..MaxMod, y0 \in 3..MaxMod :
          /\ y0 % 2 = 1 /\ x0 < y0 /\ GCD(x0, y0) = 1
          /\ x = x0 /\ y = y0
          /\ fr = inv_mod_init(x0, y0)
    /\ pc = "call_inv_mod"
    /\ r1 = 0 /\ r2 = 0
    /\ CalcIdle /\ PrimeIdle /\ MainIdle

\* r1 = inv_mod(x, y), one iteration of its loop at a time
CallInvMod ==
    /\ pc = "call_inv_mod"
    /\ LET f == inv_mod_loop(fr)
       IN  IF f.panic
           THEN /\ pc' = "panic" /\ fr' = f /\ UNCHANGED r1
           ELSE IF f.done
           THEN /\ r1' = inv_mod_result(f)
                /\ pc' = "call_inv_mod2"
                /\ fr' = inv_mod2_init(x, y)
           ELSE /\ fr' = f /\ UNCHANGED <<pc, r1>>
    /\ UNCHANGED <<x, y, r2, calcVars, primeVars, mainVars>>

\* r2 = inv_mod2(x, y), one iteration of its inner loop at a time
CallInvMod2 ==
    /\ pc = "call_inv_mod2"
    /\ LET f == inv_mod2_loop(fr)
       IN  IF f.done
           THEN /\ r2' = f.u1 /\ pc' = "inv_done" /\ fr' = NoFrame
           ELSE /\ fr' = f /\ UNCHANGED <<pc, r2>>
    /\ UNCHANGED <<x, y, r1, calcVars, primeVars, mainVars>>

NextInv == CallInvMod \/ CallInvMod2

SpecInv == InitInv /\ [][NextInv]_vars /\ WF_vars(NextInv)

----------------------------------------------------------------------------
\* is_prime on one argument

InitPrime ==
    /\ pc = "call_is_prime" /\ fr = NoFrame
    /\ arg \in 2..MaxArg /\ prime = FALSE
    /\ CalcIdle /\ InvIdle /\ MainIdle

CallIsPrime ==
    /\ pc = "call_is_prime"
    /\ prime' = is_prime(arg)
    /\ pc' = "prime_done"
    /\ UNCHANGED <<fr, arg, calcVars, invVars, mainVars>>

NextPrimeCheck == CallIsPrime

SpecPrime == InitPrime /\ [][NextPrimeCheck]_vars

----------------------------------------------------------------------------
\* main

\* an element of pi not yet written
Unset == <<"unset">>

\* format!("{:09}", calc_digits(9 * n + 1)) for block index i: calc_digits reads
\* and writes its own locals only, so the string is a function of the offset
block_of(i) == <<"calc_digits", 9 * i + 1>>

\* items placed in the order their tasks complete
collect_by_completion(vec, i, str, done) == [vec EXCEPT ![Len(done) + 1] = str]

\* collect() of an indexed parallel iterator: the item of index i is written
\* at position i of the Vec, whenever its task completes
collect(vec, i, str, done) == [vec EXCEPT ![i + 1] = str]

\* the argument parsed as u32; main has not yet divided it
InitMain ==
    /\ pc = "main" /\ fr = NoFrame
    /\ num_digits \in 0..MaxDigits
    /\ blocks = 0 /\ task = <<>> /\ pi = <<>> /\ order = <<>> /\ out = <<>>
    /\ CalcIdle /\ InvIdle /\ PrimeIdle

\* (num_digits / 9) as i32; (0..num_digits).into_par_iter()
Fork ==
    /\ pc = "main"
    /\ LET b == Quot(num_digits, 9)
       IN  /\ blocks' = b
           /\ task' = [i \in 0..(b - 1) |-> "idle"]
           /\ pi' = [i \in 1..b |-> Unset]
    /\ pc' = "par"
    /\ UNCHANGED <<fr, num_digits, order, out, calcVars, invVars, primeVars>>

\* a worker takes the task of block index i
Start(i) ==
    /\ pc = "par" /\ task[i] = "idle"
    /\ task' = [task EXCEPT ![i] = "running"]
    /\ UNCHANGED <<pc, fr, num_digits, blocks, pi, order, out, calcVars, invVars, primeVars>>

\* the task of block index i completes: its string goes into the collection
Finish(i) ==
    /\ pc = "par" /\ task[i] = "running"
    /\ task' = [task EXCEPT ![i] = "done"]
    /\ pi' = collect(pi, i, block_of(i), order)
    /\ order' = Append(order, i)
    /\ UNCHANGED <<pc, fr, num_digits, blocks, out, calcVars, invVars, primeVars>>

\* collect() returns when every task is done; println!("3.{}", pi.join(""))
JoinAndPrintln ==
    /\ pc = "par" /\ \A i \in DOMAIN task : task[i] = "done"
    /\ out' = <<"3.">> \o pi
    /\ pc' = "main_done"
    /\ UNCHANGED <<fr, num_digits, blocks, task, pi, order, calcVars, invVars, primeVars>>

NextMain ==
    \/ Fork
    \/ \E i \in DOMAIN task : Start(i)
    \/ \E i \in DOMAIN task : Finish(i)
    \/ JoinAndPrintln

SpecMain == InitMain /\ [][NextMain]_vars

----------------------------------------------------------------------------
\* Properties

\* the exponent of the prime p in m >= 1
RECURSIVE Val(_, _)
Val(p, m) == IF m % p # 0 THEN 0 ELSE 1 + Val(p, m \div p)

AtInverse == pc \in {"inv_mod", "inv_mod2"}

\* C1: calc_digits(1) returns 141592653; the digits behind the ninth leave the
\* double's rounding no way to change it.
C1_FirstBlock ==
    (pc = "done" /\ n = 1) => (result = 141592653 /\ Clear(sum))

C1_Returned == pc = "done" /\ n = 1 /\ a > 3 * nl

\* C2, as stated: for every offset n >= 0, calc_digits(n) reaches its return.
C2_TerminatesFromZero == <>(pc = "done")

\* C2, amended: for every offset n >= 1, calc_digits(n) reaches its return.
C2_TerminatesFromOne == (n >= 1) ~> (pc = "done")

C2_ReturnedFromOne == pc = "done" /\ n >= 2 /\ result >= 0

\* C7: whenever inv_mod or inv_mod2 runs on den (v > 0), den is not zero, the
\* prime base a does not divide it, and gcd(den, av) = 1.
C7_DenCoprime ==
    AtInverse =>
        /\ v > 0
        /\ den # 0 /\ Rem(den, a) # 0
        /\ GCD(den, av) = 1
        /\ pc = "inv_mod" => (fr.y = av /\ a = 2)
        /\ pc = "inv_mod2" => (fr.v = av /\ a # 2)

\* the inverse is asked for after a denominator factor lost three powers of a
C7_AfterStripping == AtInverse /\ Val(a, 3 * (3 * k - 1)) >= 3

\* C8: every addend t satisfies 0 <= t < av, and after the addition the channel
\* partial sum satisfies 0 <= s < av.
C8_SumReduced ==
    [][(pc = "scale" /\ pc' = "term") =>
           (0 <= t' /\ t' < av /\ 0 <= s' /\ s' < av /\ av' = av)]_vars

\* a term has just been added and the sum wrapped: s + t reached av
C8_Wrapped == pc = "term" /\ k > 1 /\ v > 0 /\ t > 0 /\ s < t /\ s < av

\* C9, as stated: a power of a stripped from 2k or 2k-1 increases v by one, a
\* power stripped from 3(3k-1) or 3k-2 decreases it by one.
C9_TallyAsStated ==
    [][/\ (pc = "term" /\ k <= nl) => v' = v + Val(a, 2 * k)
       /\ pc = "f2" => v' = v + Val(a, 2 * k - 1)
       /\ pc = "f3" => v' = v - Val(a, 3 * (3 * k - 1))
       /\ pc = "f4" => v' = v - Val(a, 3 * k - 2) + (IF a = 2 THEN 1 ELSE 0)]_vars

\* C9, amended: a power of a stripped from 2k or 2k-1 decreases v by one, a
\* power stripped from 3(3k-1) or 3k-2 increases it by one (and every power
\* of a in the factor is stripped).
C9_Tally ==
    [][/\ (pc = "term" /\ k <= nl) =>
              (v' = v - Val(a, 2 * k) /\ t' * Power(a, Val(a, 2 * k)) = 2 * k)
       /\ pc = "f2" =>
              (v' = v - Val(a, 2 * k - 1) /\ t' * Power(a, Val(a, 2 * k - 1)) = 2 * k - 1)
       /\ pc = "f3" =>
              (v' = v + Val(a, 3 * (3 * k - 1))
               /\ t' * Power(a, Val(a, 3 * (3 * k - 1))) = 3 * (3 * k - 1))
       /\ pc = "f4" =>
              (v' = v + Val(a, 3 * k - 2) + (IF a = 2 THEN 1 ELSE 0)
               /\ t' * Power(a, Val(a, 3 * k - 2)) = (IF a = 2 THEN 1 ELSE 2) * (3 * k - 2))]_vars

\* 3(3k-1) has just lost two or more powers of a, after 2k lost one
C9_Stripped ==
    /\ pc = "f4" /\ kq1 = 0 /\ kq3 = 0
    /\ Val(a, 2 * k) >= 1 /\ Val(a, 3 * (3 * k - 1)) >= 2
    /\ t * Power(a, Val(a, 3 * (3 * k - 1))) = 3 * (3 * k - 1)

\* C10: at the contribution step (v > 0), v <= vmax, for every base, 2 included.
C10_TallyBounded ==
    /\ pc \in {"inv_mod", "inv_mod2", "contrib", "scale"} =>
           (0 < v /\ v <= vmax /\ av = Power(a, vmax))
    /\ pc = "scale" => (v <= fr.i /\ fr.i <= vmax)

\* base 2 contributes a term with the tally above the plain logarithm of 3*nl
C10_BaseTwo == pc = "scale" /\ a = 2 /\ v > ILog(2, 3 * nl) /\ fr.i = vmax

\* C5: for y odd, 1 <= x < y, gcd(x, y) = 1: inv_mod(x, y) and inv_mod2(x, y)
\* both return, with the same value r, 0 <= r < y and (x * r) mod y = 1.
C5_InversesAgree ==
    /\ <>(pc = "inv_done")
    /\ [](pc = "inv_done" => (r1 = r2 /\ 0 <= r1 /\ r1 < y /\ (x * r1) % y = 1))

\* both have returned, for an even x (inv_mod2's other entry)
C5_BothReturned == pc = "inv_done" /\ x % 2 = 0 /\ x > 2 /\ r2 > 1

IsPrimeNumber(m) == m >= 2 /\ \A d \in 2..(m - 1) : m % d # 0

\* C6: for 2 <= n < 10000, is_prime(n) is true exactly when n is prime.
C6_IsPrimeExact == pc = "prime_done" => (prime <=> IsPrimeNumber(arg))

CeilDiv(i, j) == (i + j - 1) \div j

\* C4: main computes ceil(d / 9) blocks, one kernel call per block index i with
\* offset 9 * i + 1, so that at least d digits are produced.
C4_CeilBlocks ==
    pc = "main_done" =>
        /\ blocks = CeilDiv(num_digits, 9)
        /\ Len(pi) = blocks
        /\ \A i \in 1..Len(pi) : pi[i] = <<"calc_digits", 9 * (i - 1) + 1>>
        /\ 9 * Len(pi) >= num_digits

\* the output of evaluating block indices 0..b-1 one after the other
SequentialOut(b) == <<"3.">> \o [i \in 1..b |-> block_of(i - 1)]

\* C3: whatever the order in which the tasks start and complete, a completed
\* block sits at the position of its index, and the printed output is that of
\* the sequential evaluation.
C3_OrderedAssembly ==
    /\ pc \in {"par", "main_done"} =>
           \A i \in DOMAIN task : task[i] = "done" => pi[i + 1] = block_of(i)
    /\ pc = "main_done" => out = SequentialOut(blocks)

\* the output is printed after the last block completed first
C3_CompletedBackwards ==
    /\ pc = "main_done" /\ blocks >= 3
    /\ order[1] = blocks - 1 /\ order[blocks] = 0

====
